---- MODULE Spec2Model ----
(***************************************************************************)
(* Job lease and retry coordination of the SageScript transcription worker *)
(* (src/index.ts): the transcription_jobs rows, the transcripts table, the *)
(* polling loop, the Service Bus message handler and processJob, one       *)
(* action per awaited call.  Time is counted in minutes.                   *)
(***************************************************************************)
EXTENDS Integers, Sequences, FiniteSets, TLC

\* ------------------------------------------------------------------ bounds
\* The wall clock stops advancing at MaxNow.
MaxNow == 2
\* No job is claimed more than MaxRuns times.
MaxRuns == 3
\* The retry delay is compared for retry counts up to MaxDelayArg.
MaxDelayArg == 20

JobIds == {"j1"}
PollWorkers == {"p1"}
QueueWorkers == {"q1"}
Workers == PollWorkers \cup QueueWorkers

\* ------------------------------------------------------------ SQL values
\* NULL in a timestamp, counter or id column.
NULL == -1
\* audio_path / organization_id that is null (falsy in `!job.audio_path`).
NoPath == ""
NoOrg == ""
AudioPaths == {"audio/a.wav", NoPath}
OrgIds == {"org1", NoOrg}
\* `job.max_retries ?? 3`
DefaultMaxRetries == 3
MaxRetriesChoices == {0, 1}

\* ---------------------------------------------------------------- errors
\* An error message is the sequence of its words; String.includes is the
\* search for a contiguous run of words.
includes(msg, pat) ==
    \E i \in 1..(Len(msg) - Len(pat) + 1) : SubSeq(msg, i, i + Len(pat) - 1) = pat

MsgRateLimit == <<"429", "rate", "limit", "exceeded">>
MsgTimeout == <<"timeout", "exceeded", "when", "trying", "to", "connect">>
MsgOther == <<"exited", "with", "code", "1">>
MsgLockLost == <<"The", "lock", "supplied", "is", "invalid">>
MsgMissingAudio(id) == <<"Job", id, "missing", "audio_path">>
NoMessage == <<>>

\* What each awaited call can reject with.
DbErrors == {MsgTimeout, MsgOther}
StorageErrors == {MsgOther}
TranscodeErrors == {MsgOther}
TranscribeErrors == {MsgRateLimit, MsgTimeout, MsgOther}

\* A caught error: its .message.
NoErr == [message |-> NoMessage]
Err(m) == [message |-> m]

classifyError(err) ==
    IF includes(err.message, <<"rate", "limit">>) THEN TRUE
    ELSE IF includes(err.message, <<"timeout">>) THEN TRUE
    ELSE FALSE

\* ----------------------------------------------------------------- state
VARIABLES
    jobs,         \* transcription_jobs: id -> row
    transcripts,  \* transcripts table: sequence of rows, id = position
    now,          \* wall clock, minutes
    pc,           \* each worker's position
    wjob,         \* each worker's in-memory `job` (row returned by the claim)
    werr,         \* the error caught by the adapter's catch block
    failedJob,    \* queue handler: the row re-read in the catch block
    tid,          \* processJob: transcriptId
    heartbeat,    \* processJob: `heartbeat`: "none" (null), "active" (interval
                  \* running) or "cleared" (after clearInterval)
    hbFailed,     \* history: 'Heartbeat failed:' was logged during the run in
                  \* progress
    wmsg,         \* queue handler: job id named by the message in hand
    lockLost,     \* queue handler: the lock of the message in hand expired
    queue,        \* broker: deliverable copies per job id
    dlq,          \* broker: dead-lettered messages per job id
    runs,         \* history: successful claims per job
    holders       \* history: workers whose claim returned the job since the
                  \* last write of its status to pending/completed/failed

vars == <<jobs, transcripts, now, pc, wjob, werr, failedJob, tid, heartbeat,
          hbFailed, wmsg, lockLost, queue, dlq, runs, holders>>

NoJob == [id |-> "", retry_count |-> NULL, max_retries |-> NULL,
          audio_path |-> NoPath, organization_id |-> NoOrg]
NoMsg == ""

NewJob(path, org, maxr) ==
    [status |-> "pending", retry_count |-> 0, max_retries |-> maxr,
     next_attempt_at |-> NULL, last_heartbeat_at |-> NULL,
     last_error_message |-> NoMessage, last_error_at |-> NULL,
     completed_at |-> NULL, output_transcript_id |-> NULL,
     audio_path |-> path, organization_id |-> org]

Init ==
    /\ jobs \in [JobIds -> {NewJob(p, o, m) :
                    p \in AudioPaths, o \in OrgIds, m \in MaxRetriesChoices}]
    /\ transcripts = <<>>
    /\ now = 0
    /\ pc = [w \in Workers |-> IF w \in PollWorkers THEN "claim" ELSE "idle"]
    /\ wjob = [w \in Workers |-> NoJob]
    /\ werr = [w \in Workers |-> NoErr]
    /\ failedJob = [w \in Workers |-> NoJob]
    /\ tid = [w \in Workers |-> NULL]
    /\ heartbeat = [w \in Workers |-> "none"]
    /\ hbFailed = [w \in Workers |-> FALSE]
    /\ wmsg = [w \in Workers |-> NoMsg]
    /\ lockLost = [w \in Workers |-> FALSE]
    /\ queue = [j \in JobIds |-> 1]
    /\ dlq = [j \in JobIds |-> 0]
    /\ runs = [j \in JobIds |-> 0]
    /\ holders = [j \in JobIds |-> {}]

\* The row a claim returns (RETURNING id, audio_path, organization_id, ...,
\* retry_count, max_retries).
Returning(j) ==
    [id |-> j, retry_count |-> jobs[j].retry_count,
     max_retries |-> jobs[j].max_retries,
     audio_path |-> jobs[j].audio_path,
     organization_id |-> jobs[j].organization_id]

\* ------------------------------------------------------- failure handling
retryCountOf(job) == IF job.retry_count = NULL THEN 0 ELSE job.retry_count
maxRetriesOf(job) == IF job.max_retries = NULL THEN DefaultMaxRetries ELSE job.max_retries

nextRetryCount(job) == retryCountOf(job) + 1

\* Math.pow(2, nextRetryCount) * 60_000 ms, in minutes.
backoffMinutes_Capped(n) == IF n <= 1 THEN 2 ^ n ELSE 2
backoffMinutes(n) == 2 ^ n

shouldReschedule_NoBudget(job, err) == classifyError(err)
shouldReschedule_Strict(job, err) ==
    classifyError(err) /\ nextRetryCount(job) < maxRetriesOf(job)
shouldReschedule(job, err) ==
    classifyError(err) /\ nextRetryCount(job) <= maxRetriesOf(job)

\* The row of job.id after handleJobFailure(job, err) ran at time t.
handleJobFailureRow(row, job, err, t) ==
    IF shouldReschedule(job, err)
    THEN [row EXCEPT !.status = "pending",
                     !.retry_count = nextRetryCount(job),
                     !.next_attempt_at = t + backoffMinutes(nextRetryCount(job)),
                     !.last_error_message = err.message,
                     !.last_error_at = t]
    ELSE [row EXCEPT !.status = "failed",
                     !.last_error_message = err.message,
                     !.last_error_at = t]

\* --------------------------------------------------------------- claims
\* claim_next_transcription_job(): the stored function's WHERE clause.
claimNextEligible(row, t) ==
    /\ row.status = "pending"
    /\ (row.next_attempt_at = NULL \/ row.next_attempt_at <= t)

\* fetchJobById: WHERE id = $1 AND status = 'pending'.
fetchJobByIdMatches_AnyStatus(row) == row.status \in {"pending", "processing"}
fetchJobByIdMatches(row) == row.status = "pending"

\* SET status = 'processing', last_heartbeat_at = NOW()
markProcessing(row, t) ==
    [row EXCEPT !.status = "processing", !.last_heartbeat_at = t]

\* ------------------------------------------------------------ processJob
ProcessJobPcs == {"logStart", "download", "transcode", "transcribe",
                  "logUsage", "insert", "logDone", "markDone"}
LogSteps == {"logStart", "logUsage", "logDone"}

\* Where the adapter continues when processJob returns / throws.
OnReturn(w) == IF w \in PollWorkers THEN "claim" ELSE "ack"
OnThrow_Resume(w) == "markDone"
OnThrow(w) == IF w \in PollWorkers THEN "hjf" ELSE "refetch"

\* `userId && organizationId`
hasOwner(job) == job.organization_id # NoOrg

\* finally { if (heartbeat) clearInterval(heartbeat) }: the timer after the
\* block, given the timer before it.
finallyHeartbeat_Leak(timer) == timer
finallyHeartbeat(timer) == IF timer # "none" THEN "cleared" ELSE timer

\* processJob leaves through its finally block with error e.
Throw(w, e, timer) ==
    /\ werr' = [werr EXCEPT ![w] = e]
    /\ pc' = [pc EXCEPT ![w] = OnThrow(w)]
    /\ heartbeat' = [heartbeat EXCEPT ![w] = finallyHeartbeat(timer)]
    /\ hbFailed' = [hbFailed EXCEPT ![w] = FALSE]

\* An awaited call of the pipeline that writes nothing this model keeps.
PipelineStep(w, from, to, errs) ==
    /\ pc[w] = from
    /\ \/ /\ pc' = [pc EXCEPT ![w] = to]
          /\ UNCHANGED <<werr, heartbeat, hbFailed>>
       \/ \E m \in errs : Throw(w, Err(m), heartbeat[w])
    /\ UNCHANGED <<jobs, transcripts, now, wjob, failedJob, tid, wmsg, lockLost,
                   queue, dlq, runs, holders>>

\* logWorkflow("transcribing_started") / logSystemEvent, then setInterval and
\* the audio_path validation, which run without an await between them.
LogStart(w) ==
    /\ pc[w] = "logStart"
    /\ \/ /\ wjob[w].audio_path # NoPath
          /\ pc' = [pc EXCEPT ![w] = "download"]
          /\ heartbeat' = [heartbeat EXCEPT ![w] = "active"]
          /\ UNCHANGED <<werr, hbFailed>>
       \/ /\ wjob[w].audio_path = NoPath
          /\ Throw(w, Err(MsgMissingAudio(wjob[w].id)), "active")
       \/ \E m \in DbErrors : Throw(w, Err(m), heartbeat[w])
    /\ UNCHANGED <<jobs, transcripts, now, wjob, failedJob, tid, wmsg, lockLost,
                   queue, dlq, runs, holders>>

Download(w) == PipelineStep(w, "download", "transcode", StorageErrors)

Transcode(w) == PipelineStep(w, "transcode", "transcribe", TranscodeErrors)

Transcribe(w) ==
    PipelineStep(w, "transcribe",
                 IF hasOwner(wjob[w]) THEN "logUsage" ELSE "insert",
                 TranscribeErrors)

LogUsage(w) == PipelineStep(w, "logUsage", "insert", DbErrors)

\* insertTranscript(job, text, segments)
insertTranscript(w) ==
    /\ pc[w] = "insert"
    /\ \/ /\ transcripts' = Append(transcripts,
                 [job_id |-> wjob[w].id,
                  organization_id |-> wjob[w].organization_id])
          /\ tid' = [tid EXCEPT ![w] = Len(transcripts) + 1]
          /\ pc' = [pc EXCEPT ![w] =
                      IF hasOwner(wjob[w]) THEN "logDone" ELSE "markDone"]
          /\ UNCHANGED <<werr, heartbeat, hbFailed>>
       \/ /\ \E m \in DbErrors : Throw(w, Err(m), heartbeat[w])
          /\ UNCHANGED <<transcripts, tid>>
    /\ UNCHANGED <<jobs, now, wjob, failedJob, wmsg, lockLost, queue, dlq, runs,
                   holders>>

LogDone(w) == PipelineStep(w, "logDone", "markDone", DbErrors)

\* markJobCompleted(job.id, transcriptId), then the finally block.
markJobCompletedRow_NoRef(row, transcriptId, t) ==
    [row EXCEPT !.status = "completed", !.completed_at = t]
markJobCompletedRow(row, transcriptId, t) ==
    [row EXCEPT !.status = "completed", !.completed_at = t,
                !.output_transcript_id = transcriptId]

markJobCompleted(w) ==
    /\ pc[w] = "markDone"
    /\ \/ /\ jobs' = [jobs EXCEPT ![wjob[w].id] =
                        markJobCompletedRow(@, tid[w], now)]
          /\ holders' = [holders EXCEPT ![wjob[w].id] = {}]
          /\ pc' = [pc EXCEPT ![w] = OnReturn(w)]
          /\ heartbeat' = [heartbeat EXCEPT ![w] = finallyHeartbeat(heartbeat[w])]
          /\ hbFailed' = [hbFailed EXCEPT ![w] = FALSE]
          /\ UNCHANGED werr
       \/ /\ \E m \in DbErrors : Throw(w, Err(m), heartbeat[w])
          /\ UNCHANGED <<jobs, holders>>
    /\ UNCHANGED <<transcripts, now, wjob, failedJob, tid, wmsg, lockLost, queue,
                   dlq, runs>>

\* .catch(err => console.error('Heartbeat failed:', err)): where the run
\* stands after a rejected heartbeat query, given where it stood.
heartbeatCatch_Rethrow(w, at) == OnThrow(w)
heartbeatCatch(w, at) == at

\* The setInterval callback: UPDATE ... SET last_heartbeat_at; a rejection is
\* caught and logged.
HeartbeatTick(w) ==
    /\ heartbeat[w] = "active"
    /\ \/ /\ jobs' = [jobs EXCEPT ![wjob[w].id].last_heartbeat_at = now]
          /\ UNCHANGED <<pc, hbFailed>>
       \/ /\ hbFailed' = [hbFailed EXCEPT ![w] = TRUE]
          /\ pc' = [pc EXCEPT ![w] = heartbeatCatch(w, pc[w])]
          /\ UNCHANGED jobs
    /\ UNCHANGED <<transcripts, now, wjob, werr, failedJob, tid, heartbeat,
                   wmsg, lockLost, queue, dlq, runs, holders>>

\* ------------------------------------------------------ polling adapter
\* `if (!job || !job.id) { await sleep(3000); continue }`: where the loop
\* goes when claimJob returned null.
onNoJob_Exit == "crashed"
onNoJob == "sleep"

\* The loop awaits processJob and handleJobFailure: it is at the top of an
\* iteration only when the previous one is over.
atLoopTop_NoAwait(at) == at \in {"claim"} \cup ProcessJobPcs
atLoopTop(at) == at = "claim"

\* Top of the while loop: `let job = null; job = await claimJob()`.  claimJob
\* returns null when the stored function returns no row or a row of nulls,
\* and when the query rejects.
claimJob(w) ==
    /\ atLoopTop(pc[w])
    /\ \/ \E j \in JobIds :
            /\ claimNextEligible(jobs[j], now)
            /\ runs[j] < MaxRuns
            /\ jobs' = [jobs EXCEPT ![j] = markProcessing(@, now)]
            /\ wjob' = [wjob EXCEPT ![w] = Returning(j)]
            /\ runs' = [runs EXCEPT ![j] = @ + 1]
            /\ holders' = [holders EXCEPT ![j] = @ \cup {w}]
            /\ pc' = [pc EXCEPT ![w] = "logStart"]
            /\ heartbeat' = [heartbeat EXCEPT ![w] = "none"]
            /\ tid' = [tid EXCEPT ![w] = NULL]
       \/ /\ pc' = [pc EXCEPT ![w] = onNoJob]
          /\ wjob' = [wjob EXCEPT ![w] = NoJob]
          /\ tid' = [tid EXCEPT ![w] = NULL]
          /\ UNCHANGED <<jobs, runs, holders, heartbeat>>
    /\ UNCHANGED <<transcripts, now, werr, failedJob, hbFailed, wmsg, lockLost,
                   queue, dlq>>

\* The sleep is over: back to the top of the loop.
pollingWorkerLoopSleep(w) ==
    /\ pc[w] = "sleep"
    /\ pc' = [pc EXCEPT ![w] = "claim"]
    /\ UNCHANGED <<jobs, transcripts, now, wjob, werr, failedJob, tid, heartbeat,
                   hbFailed, wmsg, lockLost, queue, dlq, runs, holders>>

\* catch block of the loop with a job in hand: logSystemEvent (its rejection
\* is caught), then handleJobFailure(job, err) with the in-memory job.  A
\* rejection of handleJobFailure leaves the loop and main() exits the process.
pollingWorkerLoopCatch(w) ==
    /\ w \in PollWorkers
    /\ pc[w] = "hjf"
    /\ \/ /\ jobs' = [jobs EXCEPT ![wjob[w].id] =
                        handleJobFailureRow(@, wjob[w], werr[w], now)]
          /\ holders' = [holders EXCEPT ![wjob[w].id] = {}]
          /\ pc' = [pc EXCEPT ![w] = "claim"]
          /\ wjob' = [wjob EXCEPT ![w] = NoJob]
          /\ werr' = [werr EXCEPT ![w] = NoErr]
          /\ tid' = [tid EXCEPT ![w] = NULL]
          /\ heartbeat' = [heartbeat EXCEPT ![w] = "none"]
       \/ /\ pc' = [pc EXCEPT ![w] = "crashed"]
          /\ UNCHANGED <<jobs, holders, wjob, werr, tid, heartbeat>>
    /\ UNCHANGED <<transcripts, now, failedJob, hbFailed, wmsg, lockLost, queue,
                   dlq, runs>>

\* -------------------------------------------------------- queue adapter
\* The handler is over: its locals are gone.  A message that was not settled
\* and whose lock is still held goes back to the queue.
EndHandler(w, settled) ==
    /\ pc' = [pc EXCEPT ![w] = "idle"]
    /\ wjob' = [wjob EXCEPT ![w] = NoJob]
    /\ werr' = [werr EXCEPT ![w] = NoErr]
    /\ failedJob' = [failedJob EXCEPT ![w] = NoJob]
    /\ tid' = [tid EXCEPT ![w] = NULL]
    /\ heartbeat' = [heartbeat EXCEPT ![w] = "none"]
    /\ hbFailed' = [hbFailed EXCEPT ![w] = FALSE]
    /\ wmsg' = [wmsg EXCEPT ![w] = NoMsg]
    /\ lockLost' = [lockLost EXCEPT ![w] = FALSE]
    /\ queue' = IF settled \/ lockLost[w] THEN queue
                ELSE [queue EXCEPT ![wmsg[w]] = @ + 1]

\* The broker hands the handler a message naming job j.
Receive(w, j) ==
    /\ pc[w] = "idle"
    /\ queue[j] > 0
    /\ queue' = [queue EXCEPT ![j] = @ - 1]
    /\ wmsg' = [wmsg EXCEPT ![w] = j]
    /\ pc' = [pc EXCEPT ![w] = "fetch"]
    /\ UNCHANGED <<jobs, transcripts, now, wjob, werr, failedJob, tid, heartbeat,
                   hbFailed, lockLost, dlq, runs, holders>>

\* The lock of the message in hand expires while the handler still runs: the
\* broker makes the message deliverable again, and every later settlement of
\* it by this handler rejects.
LockExpire(w) ==
    /\ pc[w] # "idle"
    /\ wmsg[w] # NoMsg
    /\ ~lockLost[w]
    /\ lockLost' = [lockLost EXCEPT ![w] = TRUE]
    /\ queue' = [queue EXCEPT ![wmsg[w]] = @ + 1]
    /\ UNCHANGED <<jobs, transcripts, now, pc, wjob, werr, failedJob, tid,
                   heartbeat, hbFailed, wmsg, dlq, runs, holders>>

\* `const job = await fetchJobById(jobId)` inside the try block.
fetchJobById(w) ==
    /\ pc[w] = "fetch"
    /\ LET j == wmsg[w] IN
       \/ /\ fetchJobByIdMatches(jobs[j])
          /\ runs[j] < MaxRuns
          /\ jobs' = [jobs EXCEPT ![j] = markProcessing(@, now)]
          /\ wjob' = [wjob EXCEPT ![w] = Returning(j)]
          /\ runs' = [runs EXCEPT ![j] = @ + 1]
          /\ holders' = [holders EXCEPT ![j] = @ \cup {w}]
          /\ pc' = [pc EXCEPT ![w] = "logStart"]
          /\ UNCHANGED werr
       \/ /\ ~fetchJobByIdMatches(jobs[j])
          /\ pc' = [pc EXCEPT ![w] = "ackSkip"]
          /\ UNCHANGED <<jobs, wjob, runs, holders, werr>>
       \/ /\ \E m \in DbErrors :
                werr' = [werr EXCEPT ![w] = Err(m)]
          /\ pc' = [pc EXCEPT ![w] = "refetch"]
          /\ UNCHANGED <<jobs, wjob, runs, holders>>
    /\ UNCHANGED <<transcripts, now, failedJob, tid, heartbeat, hbFailed, wmsg,
                   lockLost, queue, dlq>>

\* receiver.completeMessage(message): after `!job` (ackSkip) or after
\* processJob returned (ack).  It rejects when the lock is lost.
completeMessage(w) ==
    /\ pc[w] \in {"ack", "ackSkip"}
    /\ \/ /\ ~lockLost[w]
          /\ EndHandler(w, TRUE)
          /\ UNCHANGED <<jobs>>
       \/ /\ lockLost[w]
          /\ werr' = [werr EXCEPT ![w] = Err(MsgLockLost)]
          /\ pc' = [pc EXCEPT ![w] = "refetch"]
          /\ UNCHANGED <<jobs, wjob, failedJob, tid, heartbeat, hbFailed, wmsg,
                         lockLost, queue>>
    /\ UNCHANGED <<transcripts, now, dlq, runs, holders>>

\* catch block: logSystemEvent(...).catch(console.error), then
\* SELECT id, retry_count, max_retries ... WHERE id = jobId.  A rejection of
\* the SELECT rejects the handler.
messageHandlerRefetch(w) ==
    /\ pc[w] = "refetch"
    /\ \/ /\ failedJob' = [failedJob EXCEPT ![w] =
                 [NoJob EXCEPT !.id = wmsg[w],
                               !.retry_count = jobs[wmsg[w]].retry_count,
                               !.max_retries = jobs[wmsg[w]].max_retries]]
          /\ pc' = [pc EXCEPT ![w] = "hjf"]
          /\ UNCHANGED <<wjob, werr, tid, heartbeat, hbFailed, wmsg, lockLost,
                         queue>>
       \/ EndHandler(w, FALSE)
    /\ UNCHANGED <<jobs, transcripts, now, dlq, runs, holders>>

\* `if (job) await handleJobFailure(job, err)` with the re-read row.
messageHandlerCatch(w) ==
    /\ w \in QueueWorkers
    /\ pc[w] = "hjf"
    /\ \/ /\ jobs' = [jobs EXCEPT ![failedJob[w].id] =
                        handleJobFailureRow(@, failedJob[w], werr[w], now)]
          /\ holders' = [holders EXCEPT ![failedJob[w].id] = {}]
          /\ pc' = [pc EXCEPT ![w] = "settle"]
          /\ UNCHANGED <<wjob, werr, failedJob, tid, heartbeat, hbFailed, wmsg,
                         lockLost, queue>>
       \/ /\ EndHandler(w, FALSE)
          /\ UNCHANGED <<jobs, holders>>
    /\ UNCHANGED <<transcripts, now, dlq, runs>>

\* `job && (job.retry_count ?? 0) >= (job.max_retries ?? 3)`
shouldDeadLetter(job) == retryCountOf(job) >= maxRetriesOf(job)

\* deadLetterMessage or abandonMessage; either rejects when the lock is lost.
messageHandlerSettle(w) ==
    /\ pc[w] = "settle"
    /\ \/ /\ ~lockLost[w]
          /\ shouldDeadLetter(failedJob[w])
          /\ dlq' = [dlq EXCEPT ![wmsg[w]] = @ + 1]
          /\ EndHandler(w, TRUE)
       \/ /\ ~lockLost[w]
          /\ ~shouldDeadLetter(failedJob[w])
          /\ EndHandler(w, FALSE)
          /\ UNCHANGED dlq
       \/ /\ lockLost[w]
          /\ EndHandler(w, FALSE)
          /\ UNCHANGED dlq
    /\ UNCHANGED <<jobs, transcripts, now, runs, holders>>

\* ----------------------------------------------------------------- time
Tick ==
    /\ now < MaxNow
    /\ now' = now + 1
    /\ UNCHANGED <<jobs, transcripts, pc, wjob, werr, failedJob, tid, heartbeat,
                   hbFailed, wmsg, lockLost, queue, dlq, runs, holders>>

Next ==
    \/ Tick
    \/ \E w \in PollWorkers :
          claimJob(w) \/ pollingWorkerLoopSleep(w) \/ pollingWorkerLoopCatch(w)
    \/ \E w \in QueueWorkers :
          \/ \E j \in JobIds : Receive(w, j)
          \/ LockExpire(w)
          \/ fetchJobById(w)
          \/ completeMessage(w)
          \/ messageHandlerRefetch(w)
          \/ messageHandlerCatch(w)
          \/ messageHandlerSettle(w)
    \/ \E w \in Workers :
          \/ LogStart(w) \/ Download(w) \/ Transcode(w) \/ Transcribe(w)
          \/ LogUsage(w) \/ insertTranscript(w) \/ LogDone(w)
          \/ markJobCompleted(w) \/ HeartbeatTick(w)

Spec == Init /\ [][Next]_vars

\* A deployment whose job has a budget of two retries, so that a row's
\* retry_count can move while a worker still holds the copy it claimed.
InitDeep ==
    /\ jobs = [j \in JobIds |-> NewJob("audio/a.wav", "org1", 2)]
    /\ transcripts = <<>>
    /\ now = 0
    /\ pc = [w \in Workers |-> IF w \in PollWorkers THEN "claim" ELSE "idle"]
    /\ wjob = [w \in Workers |-> NoJob]
    /\ werr = [w \in Workers |-> NoErr]
    /\ failedJob = [w \in Workers |-> NoJob]
    /\ tid = [w \in Workers |-> NULL]
    /\ heartbeat = [w \in Workers |-> "none"]
    /\ hbFailed = [w \in Workers |-> FALSE]
    /\ wmsg = [w \in Workers |-> NoMsg]
    /\ lockLost = [w \in Workers |-> FALSE]
    /\ queue = [j \in JobIds |-> 1]
    /\ dlq = [j \in JobIds |-> 0]
    /\ runs = [j \in JobIds |-> 0]
    /\ holders = [j \in JobIds |-> {}]

SpecDeep == InitDeep /\ [][Next]_vars

\* The steps worker w takes by itself: the continuations of its awaited
\* calls, and the delivery of a waiting message to an idle handler.
WorkerStep(w) ==
    \/ w \in PollWorkers /\ (claimJob(w) \/ pollingWorkerLoopSleep(w)
                                \/ pollingWorkerLoopCatch(w))
    \/ /\ w \in QueueWorkers
       /\ \/ \E j \in JobIds : Receive(w, j)
          \/ fetchJobById(w) \/ completeMessage(w) \/ messageHandlerRefetch(w)
          \/ messageHandlerCatch(w) \/ messageHandlerSettle(w)
    \/ LogStart(w) \/ Download(w) \/ Transcode(w) \/ Transcribe(w)
    \/ LogUsage(w) \/ insertTranscript(w) \/ LogDone(w) \/ markJobCompleted(w)

\* fetchJobById's query returns (a row or none) instead of rejecting.
fetchJobByIdReturns(w) == fetchJobById(w) /\ werr'[w] = werr[w]

\* One job with no retry budget.  Every awaited call settles and the event
\* loop runs its continuation, the broker delivers to an idle handler, and a
\* claim query that is issued again and again does not reject every time.
InitFair ==
    /\ jobs = [j \in JobIds |-> NewJob("audio/a.wav", "org1", 0)]
    /\ transcripts = <<>>
    /\ now = 0
    /\ pc = [w \in Workers |-> IF w \in PollWorkers THEN "claim" ELSE "idle"]
    /\ wjob = [w \in Workers |-> NoJob]
    /\ werr = [w \in Workers |-> NoErr]
    /\ failedJob = [w \in Workers |-> NoJob]
    /\ tid = [w \in Workers |-> NULL]
    /\ heartbeat = [w \in Workers |-> "none"]
    /\ hbFailed = [w \in Workers |-> FALSE]
    /\ wmsg = [w \in Workers |-> NoMsg]
    /\ lockLost = [w \in Workers |-> FALSE]
    /\ queue = [j \in JobIds |-> 1]
    /\ dlq = [j \in JobIds |-> 0]
    /\ runs = [j \in JobIds |-> 0]
    /\ holders = [j \in JobIds |-> {}]

SpecFair ==
    /\ InitFair /\ [][Next]_vars
    /\ \A w \in Workers : WF_vars(WorkerStep(w))
    /\ \A w \in QueueWorkers : SF_vars(fetchJobByIdReturns(w))

\* ================================================================ claims
\* The job object handleJobFailure is given: the claimed copy in the polling
\* loop, the re-read row in the message handler.
HandledJob(w) == IF w \in PollWorkers THEN wjob[w] ELSE failedJob[w]
\* Worker w applies handleJobFailure's UPDATE in this step.
FailureWrite(w) == pc[w] = "hjf" /\ pc'[w] \in {"claim", "settle"}
TranscriptsOf(j) == {i \in 1..Len(transcripts) : transcripts[i].job_id = j}

\* C1: at most one worker holds a job in processing: after a claim (claim_next
\* or claim_by_id) returned job j, no other claim returns j until j's status
\* has been written back to pending, completed or failed.
C1_AtMostOneHolder == \A j \in JobIds : Cardinality(holders[j]) <= 1
\* A message for a job the polling worker holds was delivered and
\* fetchJobById returned nothing.
C1_Witness ==
    \E j \in JobIds : \E w \in QueueWorkers :
        /\ holders[j] # {} /\ w \notin holders[j]
        /\ pc[w] = "ackSkip" /\ wmsg[w] = j /\ jobs[j].status = "processing"

\* C2: at most one transcript row is ever created per job, whatever fails
\* and however often the job is retried.
C2_AtMostOneTranscript == \A j \in JobIds : Cardinality(TranscriptsOf(j)) <= 1

\* C3 (as stated): every failed job has retry_count > max_retries, or its
\* terminal error was classified non-retryable.
C3_FailedExceedsBudget ==
    \A j \in JobIds :
        jobs[j].status = "failed" =>
            \/ jobs[j].retry_count > jobs[j].max_retries
            \/ ~classifyError(Err(jobs[j].last_error_message))
\* C3 (amended): whenever a job is written failed, the error was classified
\* non-retryable or the retry_count the failure handler was given satisfies
\* retry_count + 1 > max_retries.
C3_FailedOnlyWhenTerminal ==
    [][\A w \in Workers :
         (FailureWrite(w) /\ jobs'[HandledJob(w).id].status = "failed") =>
             \/ ~classifyError(werr[w])
             \/ retryCountOf(HandledJob(w)) + 1 > maxRetriesOf(HandledJob(w))]_vars
\* A job failed on a rate-limit error of the transcription call with its
\* budget used up exactly.
C3_Witness ==
    \E j \in JobIds :
        /\ jobs[j].status = "failed"
        /\ jobs[j].last_error_message = MsgRateLimit
        /\ jobs[j].retry_count = jobs[j].max_retries

\* Queue worker w handles a redelivered message whose job fetchJobById did
\* not return (status not pending): it is about to acknowledge it, or the
\* acknowledgement was rejected and it is in the catch block.
RedeliveredSkip(w) ==
    /\ wjob[w] = NoJob
    /\ \/ pc[w] = "ackSkip"
       \/ pc[w] \in {"refetch", "hjf", "settle"} /\ werr[w].message = MsgLockLost

\* C4: a redelivered message whose job is not pending changes no job field,
\* creates no transcript, does not start the pipeline, and is acknowledged
\* (completed while its lock is held).
C4_RedeliveryIsNoOp ==
    [][\A w \in QueueWorkers :
         (RedeliveredSkip(w) /\ pc'[w] # pc[w]) =>
             /\ jobs' = jobs
             /\ transcripts' = transcripts
             /\ pc'[w] \notin ProcessJobPcs
             /\ (pc[w] = "ackSkip" /\ ~lockLost[w]) =>
                    (pc'[w] = "idle" /\ queue' = queue /\ dlq' = dlq)]_vars

\* C5: the heartbeat timer stops once per run on every path: it is cleared
\* only by the step that leaves processJob, and no timer is active in a
\* worker that is outside processJob.
C5_HeartbeatStopped ==
    /\ [](\A w \in Workers : pc[w] \notin ProcessJobPcs => heartbeat[w] # "active")
    /\ [][\A w \in Workers :
            (heartbeat[w] = "active" /\ heartbeat'[w] # "active") =>
                /\ heartbeat'[w] = "cleared"
                /\ pc[w] \in ProcessJobPcs /\ pc'[w] \notin ProcessJobPcs]_vars
\* processJob threw at a step after the timer was started, and the timer is
\* cleared.
C5_Witness ==
    \E w \in Workers :
        /\ pc[w] \in {"hjf", "refetch"}
        /\ wjob[w] # NoJob /\ wjob[w].audio_path # NoPath
        /\ werr[w].message = MsgRateLimit
        /\ heartbeat[w] = "cleared"

\* C6: once a job is failed or completed, no operation changes its status.
C6_TerminalIsPermanent ==
    [][\A j \in JobIds :
         jobs[j].status \in {"failed", "completed"} =>
             jobs'[j].status = jobs[j].status]_vars

\* C7: when a run failed with a retryable error and the row's retry_count is
\* n with n + 1 <= max_retries, the failure write sets status pending,
\* retry_count n + 1 and next_attempt_at now + 2^(n+1) minutes.
C7_RescheduleFromStore ==
    [][\A w \in Workers :
         LET j == wjob[w].id IN
         (/\ FailureWrite(w) /\ wjob[w] # NoJob
          /\ classifyError(werr[w])
          /\ jobs[j].status = "processing"
          /\ jobs[j].retry_count + 1 <= jobs[j].max_retries) =>
             /\ jobs'[j].status = "pending"
             /\ jobs'[j].retry_count = jobs[j].retry_count + 1
             /\ jobs'[j].next_attempt_at = now + 2 ^ (jobs[j].retry_count + 1)]_vars

\* C8: a job with max_retries = m is never run more than m + 1 times.
C8_RunsBounded ==
    \A j \in JobIds : runs[j] <= maxRetriesOf(jobs[j]) + 1

\* C9: a claimed job without audio_path never reaches the download step, the
\* failure of its run is classified non-retryable, and the failure write
\* sets it failed with retry_count unchanged.
C9_MissingAudioFailsAtOnce ==
    /\ [](\A w \in Workers :
            (wjob[w] # NoJob /\ wjob[w].audio_path = NoPath) =>
                pc[w] \notin (ProcessJobPcs \ {"logStart"}))
    /\ [][\A w \in Workers :
            (wjob[w] # NoJob /\ wjob[w].audio_path = NoPath) =>
                /\ (pc[w] = "logStart" /\ pc'[w] # pc[w]) => ~classifyError(werr'[w])
                /\ FailureWrite(w) =>
                     /\ jobs'[wjob[w].id].status = "failed"
                     /\ jobs'[wjob[w].id].retry_count = jobs[wjob[w].id].retry_count]_vars

\* C10: a rejected audit or usage logging call does not change the job's
\* outcome: after every logging call, rejected or not, the run goes on to
\* its next step (or ends on the audio_path validation).
C10_LoggingNeverFailsRun ==
    [][\A w \in Workers :
         (pc[w] \in LogSteps /\ pc'[w] # pc[w]) =>
             \/ pc'[w] \in ProcessJobPcs
             \/ werr'[w].message = MsgMissingAudio(wjob[w].id)]_vars

\* C11: a rejected heartbeat write is swallowed: the step that logs it leaves
\* the run at its pipeline step with no error raised, and changes no job,
\* transcript or message.
C11_HeartbeatFailureSwallowed ==
    [][\A w \in Workers :
         (hbFailed'[w] /\ ~hbFailed[w]) =>
             /\ pc' = pc /\ werr' = werr /\ heartbeat' = heartbeat
             /\ jobs' = jobs /\ transcripts' = transcripts
             /\ queue' = queue /\ dlq' = dlq]_vars
\* A run in which a heartbeat write was rejected has inserted its transcript
\* and stands at its last step.
C11_Witness ==
    \E w \in Workers : hbFailed[w] /\ pc[w] = "markDone" /\ tid[w] # NULL

\* C12: when the queue handler settles the message of a job whose run it
\* started and saw fail (lock held), it dead-letters the message if and only
\* if its failure handling left the job failed, and abandons it otherwise.
C12_DeadLetterIffFailed ==
    [][\A w \in QueueWorkers :
         (/\ pc[w] = "settle" /\ pc'[w] = "idle"
          /\ wjob[w] # NoJob /\ ~lockLost[w]) =>
             ((dlq'[wmsg[w]] = dlq[wmsg[w]] + 1) <=>
              (handleJobFailureRow(jobs[wmsg[w]], failedJob[w], werr[w],
                                   now).status = "failed"))]_vars

\* The claim query of queue worker w rejected: it holds no job and is in the
\* catch block with the query's error.
ClaimRejected(w) ==
    /\ wjob[w] = NoJob
    /\ pc[w] \in {"refetch", "hjf", "settle"}
    /\ werr[w].message \in DbErrors

\* C13: an error raised by the claim operation itself has no job-level
\* consequence: the adapter changes no job in response.
C13_ClaimErrorTouchesNoJob ==
    [][\A w \in QueueWorkers :
         (ClaimRejected(w) /\ pc'[w] # pc[w]) => jobs' = jobs]_vars

\* C14: when claimJob returns no job (no row, or the query rejected), the
\* polling loop goes to sleep without a job in hand, writes no job and no
\* transcript and counts no run; the only step out of the sleep is back to
\* the claim.
C14_IdleClaimLoopsOn ==
    [][\A w \in PollWorkers :
         /\ (pc[w] = "claim" /\ pc'[w] \notin {"claim", "logStart"}) =>
                /\ pc'[w] = "sleep" /\ wjob'[w] = NoJob
                /\ jobs' = jobs /\ transcripts' = transcripts /\ runs' = runs
         /\ (pc[w] = "sleep" /\ pc'[w] # "sleep") =>
                /\ pc'[w] = "claim" /\ wjob'[w] = NoJob
                /\ jobs' = jobs /\ transcripts' = transcripts]_vars
\* The polling loop sleeps while the only job waits for its backoff to pass.
C14_Witness ==
    \E w \in PollWorkers : \E j \in JobIds :
        /\ pc[w] = "sleep" /\ wjob[w] = NoJob
        /\ jobs[j].status = "pending" /\ jobs[j].next_attempt_at > now

\* C15: no claim, on either path, returns a job before its next_attempt_at.
C15_BackoffHonoured ==
    [][\A j \in JobIds :
         runs'[j] > runs[j] =>
             (jobs[j].next_attempt_at = NULL \/ jobs[j].next_attempt_at <= now)]_vars

\* C16: an error is classified retryable exactly when the transcription
\* call raised it and it is a rate-limit or timeout error; errors of every
\* other step are non-retryable.
C16_RetryableOnlyFromTranscription ==
    [][\A w \in Workers :
         (werr'[w] # werr[w] /\ werr'[w] # NoErr) =>
             (classifyError(werr'[w]) <=>
                 /\ pc[w] = "transcribe"
                 /\ \/ includes(werr'[w].message, <<"rate", "limit">>)
                    \/ includes(werr'[w].message, <<"timeout">>))]_vars

\* C17: the retry delay is strictly increasing in the retry count, and it is
\* the offset every reschedule writes: next_attempt_at = now + delay(k) for
\* the retry_count k it writes.
C17_DelayIncreasing ==
    /\ [](\A n \in 0..MaxDelayArg : backoffMinutes(n + 1) > backoffMinutes(n))
    /\ [][\A w \in Workers :
            (FailureWrite(w) /\ jobs'[HandledJob(w).id].status = "pending") =>
                jobs'[HandledJob(w).id].next_attempt_at =
                    now + backoffMinutes(jobs'[HandledJob(w).id].retry_count)]_vars
\* A job was rescheduled with retry_count 1, two minutes ahead.
C17_Witness ==
    \E j \in JobIds :
        /\ jobs[j].status = "pending" /\ jobs[j].retry_count = 1
        /\ jobs[j].next_attempt_at = jobs[j].last_error_at + 2

\* C18: no write lowers a job's persisted retry_count.
C18_RetryCountMonotone ==
    [][\A j \in JobIds : jobs'[j].retry_count >= jobs[j].retry_count]_vars

\* The pipeline in the order of processJob's statements.
StepOrder == <<"logStart", "download", "transcode", "transcribe", "logUsage",
               "insert", "logDone", "markDone">>
StepRank(p) == CHOOSE i \in 1..Len(StepOrder) : StepOrder[i] = p
\* Step q follows step p: it is the next one, or only a logging call lies
\* between them.
FollowsStep(p, q) ==
    /\ StepRank(q) > StepRank(p)
    /\ \A i \in (StepRank(p) + 1)..(StepRank(q) - 1) : StepOrder[i] \in LogSteps

\* C19: within a run the steps execute in the order download, transcode,
\* transcribe, persist-transcript, mark-complete; a run starts at its first
\* step, a step that raised is followed by no later step of the run, the run
\* returns only from mark-complete, and mark-complete is reached only with
\* the transcript this run inserted.
C19_StepsInOrder ==
    /\ [](\A w \in Workers :
            pc[w] = "markDone" =>
                /\ tid[w] \in 1..Len(transcripts)
                /\ transcripts[tid[w]].job_id = wjob[w].id)
    /\ [][\A w \in Workers :
            /\ (pc[w] \notin ProcessJobPcs /\ pc'[w] \in ProcessJobPcs) =>
                   pc'[w] = "logStart"
            /\ (pc[w] \in ProcessJobPcs /\ pc'[w] # pc[w]) =>
                   IF werr'[w] # werr[w]
                   THEN pc'[w] \notin ProcessJobPcs
                   ELSE \/ pc'[w] \in ProcessJobPcs /\ FollowsStep(pc[w], pc'[w])
                        \/ pc[w] = "markDone" /\ pc'[w] = OnReturn(w)]_vars
\* A job is completed and points at a transcript inserted for it.
C19_Witness ==
    \E j \in JobIds :
        /\ jobs[j].status = "completed"
        /\ jobs[j].output_transcript_id \in 1..Len(transcripts)
        /\ transcripts[jobs[j].output_transcript_id].job_id = j

\* C20: on both paths the failure write is computed from the job's stored
\* retry bookkeeping, not from the copy obtained at claim time: the
\* retry_count and max_retries handleJobFailure is given by the polling loop
\* are the row's, the queue handler gives it the row it re-read, and the
\* heartbeat is stopped before the write.
C20_DecisionFromStore ==
    [][\A w \in Workers :
         FailureWrite(w) =>
             /\ heartbeat[w] # "active"
             /\ w \in QueueWorkers => HandledJob(w) = failedJob[w]
             /\ w \in PollWorkers =>
                    /\ HandledJob(w).retry_count = jobs[HandledJob(w).id].retry_count
                    /\ HandledJob(w).max_retries = jobs[HandledJob(w).id].max_retries]_vars

\* C21: in the run of a job without audio_path no heartbeat timer is ever
\* started: the worker's timer is still unset whenever it holds such a job.
C21_NoTimerWithoutAudio ==
    \A w \in Workers :
        (wjob[w] # NoJob /\ wjob[w].audio_path = NoPath) => heartbeat[w] = "none"

\* The polling worker's claim returned a job in this step.
PollClaim(w) ==
    /\ \E j \in JobIds : runs'[j] = runs[j] + 1
    /\ \A q \in QueueWorkers : pc'[q] = pc[q]
    /\ pc'[w] = "logStart"

\* C22: a polling worker claims only at the top of its loop, when the run and
\* the failure handling of the job it claimed before are over; while it is
\* in a run or in its catch block it has exactly that one job in hand.
C22_OneJobAtATime ==
    /\ [](\A w \in PollWorkers :
            pc[w] \in ProcessJobPcs \cup {"hjf"} => wjob[w] # NoJob)
    /\ [][\A w \in PollWorkers : PollClaim(w) => pc[w] = "claim"]_vars
\* The polling worker finished a run with a reschedule and has claimed the
\* job again.
C22_Witness ==
    \E w \in PollWorkers :
        /\ pc[w] = "logStart" /\ wjob[w].retry_count = 1
        /\ runs[wjob[w].id] >= 2 /\ holders[wjob[w].id] = {w}

\* C23: a job that is processing, completed or failed has next_attempt_at
\* null.
C23_NextAttemptOnlyWhenPending ==
    \A j \in JobIds :
        jobs[j].status # "pending" => jobs[j].next_attempt_at = NULL

\* C24: a completed job's output_transcript_id is the id of an existing
\* transcript of that job and of the job's organization.
C24_CompletedHasTranscript ==
    \A j \in JobIds :
        jobs[j].status = "completed" =>
            /\ jobs[j].output_transcript_id \in 1..Len(transcripts)
            /\ transcripts[jobs[j].output_transcript_id].job_id = j
            /\ transcripts[jobs[j].output_transcript_id].organization_id =
                   jobs[j].organization_id
\* A job of an organization was completed on a retry, after an earlier run
\* had failed.
C24_Witness ==
    \E j \in JobIds :
        /\ jobs[j].status = "completed" /\ jobs[j].organization_id = "org1"
        /\ jobs[j].retry_count = 1 /\ jobs[j].output_transcript_id # NULL

\* Worker w applies markJobCompleted's UPDATE in this step.
CompleteWrite(w) == pc[w] = "markDone" /\ pc'[w] = OnReturn(w)

\* C25: a worker applies complete, reschedule or fail to a job only if its
\* own claim returned the job and the job's status has not been written back
\* since.
C25_OnlyOwnerWrites ==
    [][\A w \in Workers :
         /\ FailureWrite(w) => w \in holders[HandledJob(w).id]
         /\ CompleteWrite(w) => w \in holders[wjob[w].id]]_vars

\* C26: every job's retry_count is at most its max_retries.
C26_RetryCountWithinBudget ==
    \A j \in JobIds : retryCountOf(jobs[j]) <= maxRetriesOf(jobs[j])
\* A job was rescheduled with the last retry of its budget.
C26_Witness ==
    \E j \in JobIds :
        /\ jobs[j].status = "pending" /\ jobs[j].max_retries = 1
        /\ jobs[j].retry_count = jobs[j].max_retries

\* The queue handler's completeMessage call succeeds in this step.
AckStep(w) == pc[w] \in {"ack", "ackSkip"} /\ pc'[w] = "idle"

\* C28: the queue handler acknowledges a message only when fetchJobById
\* returned nothing, or after its run of the job it claimed returned; the
\* message of a job it claimed is never acknowledged while that job is
\* processing or pending.
C28_AckOnlyWhenCompleted ==
    [][\A w \in QueueWorkers :
         AckStep(w) =>
             \/ pc[w] = "ackSkip" /\ wjob[w] = NoJob
             \/ /\ pc[w] = "ack" /\ wjob[w] # NoJob
                /\ jobs[wjob[w].id].status \notin {"processing", "pending"}]_vars

\* C27: while the worker processes stay alive, every job in processing
\* eventually leaves processing.
C27_ClaimedJobLeavesProcessing ==
    \A j \in JobIds :
        (jobs[j].status = "processing") ~>
            (jobs[j].status # "processing" \/ \E w \in Workers : pc[w] = "crashed")

====
